---- MODULE Spec2Model ----
(***************************************************************************)
(* NRF51822 ST low level driver (os/hal/ports/NRF51/NRF51822/st_lld.h).    *)
(*                                                                         *)
(* The model has three layers:                                             *)
(*   - the build configuration and the preprocessor checks of the header;  *)
(*   - the timer peripheral (RTC0 or TIMER0): a free-running counter, the  *)
(*     compare register CC[0], the capture register CC[1], the latched     *)
(*     event flag EVENTS_COMPARE[0] and the enable bit of the compare      *)
(*     source (EVTEN on RTC0, INTEN on TIMER0);                            *)
(*   - the inline driver functions, one action per register access, run    *)
(*     from normal context or from the compare interrupt handler.          *)
(* Variables whose comment says "history" record what happened; no action  *)
(* of the driver reads them.                                               *)
(***************************************************************************)
EXTENDS Integers, FiniteSets, Sequences, TLC

\* ---------------------------------------------------------------- bounds
\* Width W in bits of SystemTime on the RTC0 peripheral, scaled down.
RtcBits == 2
\* Width W in bits of SystemTime on the TIMER0 peripheral, scaled down.
TimerBits == 2
\* Fixed tick period used by the periodic re-arm of the handler.
Period == 3
\* Largest number of consecutive re-arms counted after one start.
MaxMatches == 3

\* ------------------------------------------------------ driver constants
NRF51_SYSTEM_TICKS_AS_TIMER == 1
NRF51_SYSTEM_TICKS_AS_RTC == 2
\* The literal of the CH_CFG_ST_TIMEDELTA check.
TIMEDELTA_MIN == 5

\* Values tried for the NRF51_SYSTEM_TICKS macro when it is defined.
TicksValues == 0 .. 3
\* Values tried for the CH_CFG_ST_TIMEDELTA macro when it is defined.
DeltaValues == {0, 2, 4, 5}
\* Values of OSAL_ST_MODE.
ModeValues == {"OSAL_ST_MODE_PERIODIC", "OSAL_ST_MODE_FREERUNNING"}

VARIABLES
    ticksDefined,     \* build: NRF51_SYSTEM_TICKS is defined
    ticksValue,       \* build: its value when defined
    deltaDefined,     \* build: CH_CFG_ST_TIMEDELTA is defined
    deltaValue,       \* build: its value when defined
    osalMode,         \* build: OSAL_ST_MODE
    phase,            \* "config", "error" (build stopped by #error), "ready"
    backend,          \* the branch of the #if blocks compiled in: "none", "RTC", "TIMER"
    errors,           \* the #error messages emitted
    COUNTER,          \* free-running counter of the peripheral
    CC0,              \* CC[0], the alarm compare register
    CC1,              \* CC[1], the capture register used for reads (TIMER0)
    EVENTS_COMPARE0,  \* EVENTS_COMPARE[0], the latched compare event
    EVTEN,            \* RTC0 EVTEN.COMPARE0
    INTEN,            \* TIMER0 INTEN.COMPARE0
    pc,               \* position of the normal context
    isrpc,            \* position of the interrupt handler ("none": not running)
    retKind,          \* which query returned last ("none" after any other step)
    retVal,           \* the value it returned
    alarmState,       \* history: AlarmState, "Disarmed" or "Armed"
    lastArg,          \* history: argument of the last start/set (-1: none yet)
    D0,               \* history: argument of the last start (-1: none yet)
    n,                \* history: re-arms by the handler since that start (-1: chain broken)
    flagCause,        \* history: what latched EVENTS_COMPARE[0]
    winMatch,         \* history: a match fell between the clear and the enable of start
    matched,          \* history: the last counter tick was a compare match
    fresh,            \* history: no compare match since CC[0] was last written
    overwrote,        \* history: the last write of CC[0] replaced another, unmatched deadline
    run,              \* history: progress of start, match, stop, start
    gcSpan,           \* history: ticks since get_counter began in normal context (capped)
    hSpan             \* history: ticks since get_counter began in the handler (capped)

cfgVars == <<ticksDefined, ticksValue, deltaDefined, deltaValue, osalMode>>
hwVars == <<COUNTER, CC0, CC1, EVENTS_COMPARE0, EVTEN, INTEN>>
histVars == <<alarmState, lastArg, D0, n, flagCause, winMatch, matched, fresh, overwrote, run>>
spanVars == <<gcSpan, hSpan>>
vars == <<cfgVars, phase, backend, errors, hwVars, pc, isrpc, retKind, retVal, histVars, spanVars>>

\* ---------------------------------------------------- build configuration
\* NRF51_SYSTEM_TICKS after the default of the header is applied.
NRF51_SYSTEM_TICKS ==
    IF ticksDefined THEN ticksValue ELSE NRF51_SYSTEM_TICKS_AS_RTC

\* Variant of the check with || in place of &&.
TicksIllegal_or ==
    \/ NRF51_SYSTEM_TICKS # NRF51_SYSTEM_TICKS_AS_RTC
    \/ NRF51_SYSTEM_TICKS # NRF51_SYSTEM_TICKS_AS_TIMER

TicksIllegal ==
    /\ NRF51_SYSTEM_TICKS # NRF51_SYSTEM_TICKS_AS_RTC
    /\ NRF51_SYSTEM_TICKS # NRF51_SYSTEM_TICKS_AS_TIMER

\* Variant of the check with the comparison turned round.
TimedeltaTooLow_inverted ==
    deltaDefined /\ deltaValue > TIMEDELTA_MIN

TimedeltaTooLow ==
    deltaDefined /\ deltaValue < TIMEDELTA_MIN

\* Variant of the check that tests for the other mode.
FreerunningRejected_other_mode ==
    osalMode = "OSAL_ST_MODE_NONE"

FreerunningRejected ==
    osalMode = "OSAL_ST_MODE_FREERUNNING"

\* The #error directives the preprocessor reaches.
ErrorChecks ==
    (IF TicksIllegal THEN {"NRF51_SYSTEM_TICKS illegal value"} ELSE {})
    \cup (IF TimedeltaTooLow THEN {"CH_CFG_ST_TIMEDELTA is too low"} ELSE {})
    \cup (IF FreerunningRejected
          THEN {"Freeruning (tick-less) mode currently not working"} ELSE {})

\* The branch of the #if blocks of the inline functions the build selects.
SelectedBackend ==
    IF NRF51_SYSTEM_TICKS = NRF51_SYSTEM_TICKS_AS_RTC THEN "RTC"
    ELSE IF NRF51_SYSTEM_TICKS = NRF51_SYSTEM_TICKS_AS_TIMER THEN "TIMER"
    ELSE "none"

\* The macros exist during the build only: the compiled driver keeps the
\* selected branch and nothing else of them.
NoMacros ==
    /\ ticksDefined' = FALSE /\ ticksValue' = 0
    /\ deltaDefined' = FALSE /\ deltaValue' = 0
    /\ osalMode' = "none"

UseRTC == backend = "RTC"
UseTIMER == backend = "TIMER"

\* 2^W, the modulus of SystemTime on the selected peripheral.
Modulus == IF UseRTC THEN 2 ^ RtcBits ELSE 2 ^ TimerBits
SystemTime == 0 .. (Modulus - 1)
\* The (systime_t) conversion of a value read from or written to a register.
systime_t(v) == v % Modulus

\* --------------------------------------------------------------- hardware
\* Enable bit of the compare source on the selected peripheral.
CompareEnabled == IF UseRTC THEN EVTEN ELSE INTEN
\* The compare interrupt is requested: event latched and source enabled.
IrqLine == EVENTS_COMPARE0 = 1 /\ CompareEnabled
\* The normal context runs start, stop and set with the source masked.
Unmasked == pc \in {"idle", "gc_read"}
IrqPending == IrqLine /\ Unmasked /\ isrpc = "none"

\* ------------------------------------------------------- driver functions
\* Each definition is one register access of an inline function of the
\* header; the peripheral it addresses is the one NRF51_SYSTEM_TICKS selects.

\* Variant of the first statement that writes the capture slot CC[1].
start_alarm_cc_capture_slot(abstime) ==
    /\ CC1' = systime_t(abstime)
    /\ UNCHANGED <<COUNTER, CC0, EVENTS_COMPARE0, EVTEN, INTEN>>

\* st_lld_start_alarm, first statement: CC[0] = abstime.
st_lld_start_alarm_cc(abstime) ==
    /\ CC0' = systime_t(abstime)
    /\ UNCHANGED <<COUNTER, CC1, EVENTS_COMPARE0, EVTEN, INTEN>>

\* Variant of the second statement that leaves the event latched.
start_alarm_clear_omitted ==
    UNCHANGED <<COUNTER, CC0, CC1, EVENTS_COMPARE0, EVTEN, INTEN>>

\* Variant of the second statement that enables the source (the enable
\* placed before the clear).
start_alarm_clear_enables ==
    /\ IF UseRTC
       THEN EVTEN' = TRUE /\ INTEN' = INTEN
       ELSE INTEN' = TRUE /\ EVTEN' = EVTEN
    /\ UNCHANGED <<COUNTER, CC0, CC1, EVENTS_COMPARE0>>

\* st_lld_start_alarm, second statement: EVENTS_COMPARE[0] = 0.
st_lld_start_alarm_clear ==
    /\ EVENTS_COMPARE0' = 0
    /\ UNCHANGED <<COUNTER, CC0, CC1, EVTEN, INTEN>>

\* Variant of the third statement that clears the event once more while it
\* enables the source (the clear placed last).
start_alarm_enable_clears_event ==
    /\ IF UseRTC
       THEN EVTEN' = TRUE /\ INTEN' = INTEN
       ELSE INTEN' = TRUE /\ EVTEN' = EVTEN
    /\ EVENTS_COMPARE0' = 0
    /\ UNCHANGED <<COUNTER, CC0, CC1>>

\* st_lld_start_alarm, third statement: EVTENSET / INTENSET = COMPARE0.
st_lld_start_alarm_enable ==
    /\ IF UseRTC
       THEN EVTEN' = TRUE /\ INTEN' = INTEN
       ELSE INTEN' = TRUE /\ EVTEN' = EVTEN
    /\ UNCHANGED <<COUNTER, CC0, CC1, EVENTS_COMPARE0>>

\* Variant of the first statement that clears the enable bit of the other
\* peripheral.
stop_alarm_disable_wrong_peripheral ==
    /\ IF UseRTC
       THEN INTEN' = FALSE /\ EVTEN' = EVTEN
       ELSE EVTEN' = FALSE /\ INTEN' = INTEN
    /\ UNCHANGED <<COUNTER, CC0, CC1, EVENTS_COMPARE0>>

\* st_lld_stop_alarm, first statement: EVTENCLR / INTENCLR = COMPARE0.
st_lld_stop_alarm_disable ==
    /\ IF UseRTC
       THEN EVTEN' = FALSE /\ INTEN' = INTEN
       ELSE INTEN' = FALSE /\ EVTEN' = EVTEN
    /\ UNCHANGED <<COUNTER, CC0, CC1, EVENTS_COMPARE0>>

\* Variant of the second statement that leaves the event latched.
stop_alarm_clear_omitted ==
    UNCHANGED <<COUNTER, CC0, CC1, EVENTS_COMPARE0, EVTEN, INTEN>>

\* Variant of the second statement that also resets the compare register.
stop_alarm_clear_resets_cc ==
    /\ EVENTS_COMPARE0' = 0
    /\ CC0' = 0
    /\ UNCHANGED <<COUNTER, CC1, EVTEN, INTEN>>

\* st_lld_stop_alarm, second statement: EVENTS_COMPARE[0] = 0.
st_lld_stop_alarm_clear ==
    /\ EVENTS_COMPARE0' = 0
    /\ UNCHANGED <<COUNTER, CC0, CC1, EVTEN, INTEN>>

\* Variant of set that also clears the pending event.
set_alarm_clears_event(abstime) ==
    /\ CC0' = systime_t(abstime)
    /\ EVENTS_COMPARE0' = 0
    /\ UNCHANGED <<COUNTER, CC1, EVTEN, INTEN>>

\* Variant of set that writes the capture slot CC[1].
set_alarm_capture_slot(abstime) ==
    /\ CC1' = systime_t(abstime)
    /\ UNCHANGED <<COUNTER, CC0, EVENTS_COMPARE0, EVTEN, INTEN>>

\* st_lld_set_alarm: CC[0] = abstime.
st_lld_set_alarm(abstime) ==
    /\ CC0' = systime_t(abstime)
    /\ UNCHANGED <<COUNTER, CC1, EVENTS_COMPARE0, EVTEN, INTEN>>

\* Variant of get that reads the capture slot CC[1].
get_alarm_capture_slot == systime_t(CC1)

\* st_lld_get_alarm: (systime_t)CC[0].
st_lld_get_alarm == systime_t(CC0)

\* st_lld_is_alarm_active: EVTEN & COMPARE0 mask on RTC0 (the mask named
\* RTC_INTENSET_COMPARE0_Msk selects the COMPARE0 bit), false on TIMER0.
st_lld_is_alarm_active ==
    IF UseRTC THEN EVTEN ELSE FALSE

\* Variant of the first statement that triggers the capture of the alarm
\* slot, TASKS_CAPTURE[0].
get_counter_capture_alarm_slot ==
    /\ CC0' = COUNTER
    /\ UNCHANGED <<COUNTER, CC1, EVENTS_COMPARE0, EVTEN, INTEN>>

\* Variant of the first statement that triggers no capture.
get_counter_capture_omitted ==
    UNCHANGED <<COUNTER, CC0, CC1, EVENTS_COMPARE0, EVTEN, INTEN>>

\* st_lld_get_counter on TIMER0, first statement: TASKS_CAPTURE[1] = 1.
st_lld_get_counter_capture ==
    /\ CC1' = COUNTER
    /\ UNCHANGED <<COUNTER, CC0, EVENTS_COMPARE0, EVTEN, INTEN>>

\* st_lld_get_counter: the value returned (COUNTER on RTC0, CC[1] on TIMER0).
st_lld_get_counter ==
    IF UseRTC THEN systime_t(COUNTER) ELSE systime_t(CC1)

BoolVal(b) == IF b THEN 1 ELSE 0

\* ------------------------------------------------------------------ Init
Init ==
    /\ ticksDefined \in BOOLEAN
    /\ ticksValue \in (IF ticksDefined THEN TicksValues ELSE {0})
    /\ deltaDefined \in BOOLEAN
    /\ deltaValue \in (IF deltaDefined THEN DeltaValues ELSE {0})
    /\ osalMode \in ModeValues
    /\ phase = "config"
    /\ backend = "none"
    /\ errors = {}
    /\ COUNTER = 0 /\ CC0 = 0 /\ CC1 = 0
    /\ EVENTS_COMPARE0 = 0 /\ EVTEN = FALSE /\ INTEN = FALSE
    /\ pc = "idle" /\ isrpc = "none"
    /\ retKind = "none" /\ retVal = 0
    /\ alarmState = "Disarmed"
    /\ lastArg = -1 /\ D0 = -1 /\ n = -1
    /\ flagCause = "none" /\ winMatch = FALSE /\ matched = FALSE
    /\ fresh = FALSE /\ overwrote = FALSE
    /\ run = "none"
    /\ gcSpan = 0 /\ hSpan = 0

\* --------------------------------------------------------- configuration
\* The build: the preprocessor evaluates the checks of the header; with no
\* #error the driver is compiled and st_lld_init leaves the alarm disarmed
\* and the counter running.
Configure ==
    /\ phase = "config"
    /\ errors' = ErrorChecks
    /\ IF ErrorChecks = {}
       THEN phase' = "ready" /\ backend' = SelectedBackend /\ NoMacros
       ELSE phase' = "error" /\ backend' = "none" /\ UNCHANGED cfgVars
    /\ UNCHANGED <<hwVars, pc, isrpc, retKind, retVal, histVars>>
    /\ UNCHANGED spanVars

\* --------------------------------------------------------------- hardware
\* A count of ticks, kept below the modulus: after Modulus - 1 ticks the
\* counter has held every value.
Capped(k) == IF k > Modulus - 1 THEN Modulus - 1 ELSE k

\* One increment of the free-running counter; the compare event latches
\* when the counter reaches CC[0], whatever the enable bit says.
Tick ==
    /\ phase = "ready"
    /\ COUNTER' = (COUNTER + 1) % Modulus
    /\ LET match == COUNTER' = CC0
           latch == match /\ EVENTS_COMPARE0 = 0
       IN /\ EVENTS_COMPARE0' = IF match THEN 1 ELSE EVENTS_COMPARE0
          /\ matched' = match
          /\ fresh' = IF match THEN FALSE ELSE fresh
          /\ winMatch' = IF match /\ pc = "start_enable" THEN TRUE ELSE winMatch
          /\ flagCause' = IF ~latch THEN flagCause
                          ELSE IF pc = "start_clear" THEN "stale"
                          ELSE IF n = 0 /\ CC0 = D0 THEN "start"
                          ELSE "other"
    /\ UNCHANGED <<CC0, CC1, EVTEN, INTEN>>
    /\ UNCHANGED <<cfgVars, phase, backend, errors, pc, isrpc, retKind, retVal>>
    /\ UNCHANGED <<alarmState, lastArg, D0, n, overwrote, run>>
    /\ gcSpan' = IF pc = "gc_read" THEN Capped(gcSpan + 1) ELSE gcSpan
    /\ hSpan' = IF isrpc = "h_gc_read" THEN Capped(hSpan + 1) ELSE hSpan

\* --------------------------------------------------------- normal context
\* The normal context runs when no handler is active and no unmasked
\* interrupt request is waiting.
CpuMain == phase = "ready" /\ isrpc = "none" /\ ~IrqPending

NoRet == retKind' = "none" /\ retVal' = 0

\* History of a write of deadline d to CC[0].
Programmed(d) ==
    /\ lastArg' = d
    /\ overwrote' = (fresh /\ lastArg # d)
    /\ fresh' = TRUE

StartCC(d) ==
    /\ CpuMain /\ pc = "idle"
    /\ st_lld_start_alarm_cc(d)
    /\ pc' = "start_clear"
    /\ NoRet
    /\ Programmed(d)
    /\ alarmState' = "Armed"
    /\ D0' = d /\ n' = 0
    /\ flagCause' = IF EVENTS_COMPARE0 = 1 THEN "stale" ELSE "none"
    /\ winMatch' = FALSE
    /\ UNCHANGED <<cfgVars, phase, backend, errors, isrpc, matched, run>>
    /\ UNCHANGED spanVars

StartClear ==
    /\ CpuMain /\ pc = "start_clear"
    /\ st_lld_start_alarm_clear
    /\ pc' = "start_enable"
    /\ flagCause' = IF EVENTS_COMPARE0' = 0 THEN "none" ELSE flagCause
    /\ UNCHANGED <<cfgVars, phase, backend, errors, isrpc, retKind, retVal>>
    /\ UNCHANGED <<alarmState, lastArg, D0, n, winMatch, matched, fresh, overwrote, run>>
    /\ UNCHANGED spanVars

StartEnable ==
    /\ CpuMain /\ pc = "start_enable"
    /\ st_lld_start_alarm_enable
    /\ pc' = "idle"
    /\ run' = IF run = "stopped" THEN "restarted" ELSE "started"
    /\ flagCause' = IF EVENTS_COMPARE0' = 0 THEN "none" ELSE flagCause
    /\ UNCHANGED <<cfgVars, phase, backend, errors, isrpc, retKind, retVal>>
    /\ UNCHANGED <<alarmState, lastArg, D0, n, winMatch, matched, fresh, overwrote>>
    /\ UNCHANGED spanVars

StopDisable ==
    /\ CpuMain /\ pc = "idle"
    /\ st_lld_stop_alarm_disable
    /\ pc' = "stop_clear"
    /\ NoRet
    /\ n' = -1
    /\ UNCHANGED <<cfgVars, phase, backend, errors, isrpc>>
    /\ UNCHANGED <<alarmState, lastArg, D0, flagCause, winMatch, matched, fresh, overwrote, run>>
    /\ UNCHANGED spanVars

StopClear ==
    /\ CpuMain /\ pc = "stop_clear"
    /\ st_lld_stop_alarm_clear
    /\ pc' = "idle"
    /\ alarmState' = "Disarmed"
    /\ run' = IF run = "matched" THEN "stopped" ELSE "none"
    /\ flagCause' = IF EVENTS_COMPARE0' = 0 THEN "none" ELSE flagCause
    /\ winMatch' = FALSE
    /\ UNCHANGED <<cfgVars, phase, backend, errors, isrpc, retKind, retVal>>
    /\ UNCHANGED <<lastArg, D0, n, matched, fresh, overwrote>>
    /\ UNCHANGED spanVars

SetAlarm(d) ==
    /\ CpuMain /\ pc = "idle"
    /\ st_lld_set_alarm(d)
    /\ NoRet
    /\ Programmed(d)
    /\ n' = -1
    /\ run' = "none"
    /\ UNCHANGED <<cfgVars, phase, backend, errors, pc, isrpc>>
    /\ UNCHANGED <<alarmState, D0, flagCause, winMatch, matched>>
    /\ UNCHANGED spanVars

GetAlarm ==
    /\ CpuMain /\ pc = "idle"
    /\ retKind' = "get" /\ retVal' = st_lld_get_alarm
    /\ UNCHANGED <<cfgVars, phase, backend, errors, hwVars, pc, isrpc, histVars>>
    /\ UNCHANGED spanVars

IsAlarmActive ==
    /\ CpuMain /\ pc = "idle"
    /\ retKind' = "active" /\ retVal' = BoolVal(st_lld_is_alarm_active)
    /\ UNCHANGED <<cfgVars, phase, backend, errors, hwVars, pc, isrpc, histVars>>
    /\ UNCHANGED spanVars

\* st_lld_get_counter on RTC0: one read of COUNTER.
GetCounterRTC ==
    /\ CpuMain /\ pc = "idle" /\ UseRTC
    /\ retKind' = "counter" /\ retVal' = st_lld_get_counter
    /\ UNCHANGED <<cfgVars, phase, backend, errors, hwVars, pc, isrpc, histVars>>
    /\ UNCHANGED spanVars

\* st_lld_get_counter on TIMER0: trigger the capture into CC[1] ...
GetCounterCapture ==
    /\ CpuMain /\ pc = "idle" /\ UseTIMER
    /\ st_lld_get_counter_capture
    /\ pc' = "gc_read"
    /\ NoRet
    /\ gcSpan' = 0 /\ hSpan' = hSpan
    /\ UNCHANGED <<cfgVars, phase, backend, errors, isrpc, histVars>>

\* ... then read CC[1].
GetCounterRead ==
    /\ CpuMain /\ pc = "gc_read"
    /\ retKind' = "counter" /\ retVal' = st_lld_get_counter
    /\ pc' = "idle"
    /\ gcSpan' = 0 /\ hSpan' = hSpan
    /\ UNCHANGED <<cfgVars, phase, backend, errors, hwVars, isrpc, histVars>>

\* ------------------------------------------------------ interrupt handler
\* The compare interrupt is taken: the handler starts.
IsrEntry ==
    /\ phase = "ready"
    /\ IrqPending
    /\ isrpc' = "h_clear"
    /\ NoRet
    /\ run' = IF run = "started" THEN "matched"
              ELSE IF run = "restarted" THEN "delivered" ELSE "none"
    /\ UNCHANGED <<cfgVars, phase, backend, errors, hwVars, pc>>
    /\ UNCHANGED <<alarmState, lastArg, D0, n, flagCause, winMatch, matched, fresh, overwrote>>
    /\ UNCHANGED spanVars

\* The handler clears the event before it notifies the kernel.
IsrClear ==
    /\ isrpc = "h_clear"
    /\ EVENTS_COMPARE0' = 0
    /\ isrpc' = "h_notify"
    /\ flagCause' = "none"
    /\ winMatch' = FALSE
    /\ UNCHANGED <<COUNTER, CC0, CC1, EVTEN, INTEN>>
    /\ UNCHANGED <<cfgVars, phase, backend, errors, pc, retKind, retVal>>
    /\ UNCHANGED <<alarmState, lastArg, D0, n, matched, fresh, overwrote, run>>
    /\ UNCHANGED spanVars

\* The notification may read the time first: st_lld_get_counter on RTC0 ...
IsrGetCounterRTC ==
    /\ isrpc = "h_notify" /\ UseRTC
    /\ retKind' = "hcounter" /\ retVal' = st_lld_get_counter
    /\ isrpc' = "h_act"
    /\ UNCHANGED <<cfgVars, phase, backend, errors, hwVars, pc, histVars, spanVars>>

\* ... on TIMER0, the capture into CC[1] ...
IsrGetCounterCapture ==
    /\ isrpc = "h_notify" /\ UseTIMER
    /\ st_lld_get_counter_capture
    /\ isrpc' = "h_gc_read"
    /\ hSpan' = 0 /\ gcSpan' = gcSpan
    /\ UNCHANGED <<cfgVars, phase, backend, errors, pc, retKind, retVal, histVars>>

\* ... and the read of CC[1].
IsrGetCounterRead ==
    /\ isrpc = "h_gc_read"
    /\ retKind' = "hcounter" /\ retVal' = st_lld_get_counter
    /\ isrpc' = "h_act"
    /\ hSpan' = 0 /\ gcSpan' = gcSpan
    /\ UNCHANGED <<cfgVars, phase, backend, errors, hwVars, pc, histVars>>

\* The notification is about to act on the alarm.
HandlerActs == isrpc \in {"h_notify", "h_act"}

\* Periodic re-arm by the notification: set(get() + period), then return.
IsrRearm ==
    /\ HandlerActs
    /\ n < MaxMatches
    /\ LET next == systime_t(st_lld_get_alarm + Period)
       IN /\ st_lld_set_alarm(next)
          /\ Programmed(next)
    /\ n' = IF n >= 0 THEN n + 1 ELSE -1
    /\ run' = "none"
    /\ isrpc' = "none"
    /\ UNCHANGED <<cfgVars, phase, backend, errors, pc, retKind, retVal>>
    /\ UNCHANGED <<alarmState, D0, flagCause, winMatch, matched>>
    /\ UNCHANGED spanVars

\* The notification stops the alarm instead: first statement of stop ...
IsrStopDisable ==
    /\ HandlerActs
    /\ st_lld_stop_alarm_disable
    /\ isrpc' = "h_stop_clear"
    /\ n' = -1
    /\ UNCHANGED <<cfgVars, phase, backend, errors, pc, retKind, retVal>>
    /\ UNCHANGED <<alarmState, lastArg, D0, flagCause, winMatch, matched, fresh, overwrote, run>>
    /\ UNCHANGED spanVars

\* ... second statement of stop, then return.
IsrStopClear ==
    /\ isrpc = "h_stop_clear"
    /\ st_lld_stop_alarm_clear
    /\ isrpc' = "none"
    /\ alarmState' = "Disarmed"
    /\ run' = IF run = "matched" THEN "stopped" ELSE "none"
    /\ flagCause' = IF EVENTS_COMPARE0' = 0 THEN "none" ELSE flagCause
    /\ winMatch' = FALSE
    /\ UNCHANGED <<cfgVars, phase, backend, errors, pc, retKind, retVal>>
    /\ UNCHANGED <<lastArg, D0, n, matched, fresh, overwrote>>
    /\ UNCHANGED spanVars

Next ==
    \/ Configure
    \/ Tick
    \/ \E d \in SystemTime : StartCC(d)
    \/ StartClear
    \/ StartEnable
    \/ StopDisable
    \/ StopClear
    \/ \E d \in SystemTime : SetAlarm(d)
    \/ GetAlarm
    \/ IsAlarmActive
    \/ GetCounterRTC
    \/ GetCounterCapture
    \/ GetCounterRead
    \/ IsrEntry
    \/ IsrClear
    \/ IsrGetCounterRTC
    \/ IsrGetCounterCapture
    \/ IsrGetCounterRead
    \/ IsrRearm
    \/ IsrStopDisable
    \/ IsrStopClear

Spec == Init /\ [][Next]_vars

\* The interrupt controller hands a requested, unmasked interrupt to the
\* processor: the handler entry is not postponed for ever.
FairSpec == Spec /\ WF_vars(IsrEntry)

\* ------------------------------------------------------------ properties

\* C1: no spurious alarm after start. An interrupt taken while the last
\* alarm operation is a start (no set or stop since) was latched by a compare
\* match against the deadline of that start, after the clear of the event
\* inside that start: never by an earlier match nor by a flag latched before
\* the start.
C1_NoSpuriousAlarm ==
    (isrpc = "h_clear" /\ n = 0) => flagCause = "start"

\* C1 witness: start, match, stop, start again, and the interrupt of the
\* second deadline is taken.
C1_Witness ==
    /\ run = "delivered"
    /\ isrpc = "h_clear"
    /\ n = 0
    /\ flagCause = "start"

\* C2: no alarm interrupt is requested or taken while AlarmState is
\* Disarmed, although the event may latch while disarmed.
C2_NoIrqWhileDisarmed ==
    (IrqLine \/ isrpc = "h_clear") => alarmState = "Armed"

\* C2 witness: after a stop, the event is latched while the alarm is
\* disarmed, and no interrupt is requested.
C2_Witness ==
    /\ alarmState = "Disarmed"
    /\ D0 # -1
    /\ EVENTS_COMPARE0 = 1
    /\ pc = "idle" /\ isrpc = "none"
    /\ ~IrqLine

\* start has returned after a compare match fell between its clear and its
\* enable, and the handler has not run since.
WindowMatchPending ==
    winMatch /\ pc = "idle" /\ isrpc = "none"

\* C3: a compare match between the clear of the event and the enable of the
\* source inside start is not lost: when start has returned the event is
\* still latched and the interrupt is requested, and the handler is entered.
C3_WindowMatchDelivered ==
    /\ [](WindowMatchPending => (EVENTS_COMPARE0 = 1 /\ IrqPending))
    /\ (WindowMatchPending ~> (isrpc = "h_clear"))

\* C3 witness: start has returned with the event latched by a match in the
\* window, against the deadline of that start.
C3_Witness ==
    /\ WindowMatchPending
    /\ flagCause = "start"
    /\ EVENTS_COMPARE0 = 1

\* C4: round trip of the deadline. get() returns the argument of the last
\* start or set, and a set leaves the enable bit of the compare source as it
\* was (an armed alarm stays armed).
C4_DeadlineRoundTrip ==
    [][ /\ (GetAlarm /\ lastArg # -1) => retVal' = lastArg
        /\ (\E d \in SystemTime : SetAlarm(d)) =>
               (CompareEnabled' = CompareEnabled /\ st_lld_get_alarm' = lastArg')
      ]_vars

\* C4 witness: armed by start(D0), re-programmed by set to another deadline
\* before any match, and get() has returned that deadline.
C4_Witness ==
    /\ alarmState = "Armed" /\ CompareEnabled
    /\ n = -1 /\ fresh
    /\ retKind = "get" /\ retVal = lastArg
    /\ lastArg # D0

\* C5 as claimed: is_active() returns whether the compare source is enabled,
\* true after start with no later stop and false otherwise, on both
\* peripherals.
C5_IsActiveReflectsEnable ==
    retKind = "active" =>
        /\ retVal = BoolVal(CompareEnabled)
        /\ retVal = BoolVal(alarmState = "Armed")

\* C6: a build with OSAL_ST_MODE == OSAL_ST_MODE_FREERUNNING ends in the
\* error of the free-running check, whatever the other macros are, and
\* nothing happens after a build error.
C6_TicklessRejected ==
    [][ /\ (phase = "config" /\ osalMode = "OSAL_ST_MODE_FREERUNNING") =>
               /\ phase' = "error"
               /\ "Freeruning (tick-less) mode currently not working" \in errors'
        /\ phase # "error"
      ]_vars

\* C6 witness: a build stopped by the free-running check alone.
C6_Witness ==
    /\ phase = "error"
    /\ osalMode = "OSAL_ST_MODE_FREERUNNING"
    /\ errors = {"Freeruning (tick-less) mode currently not working"}
    /\ EVTEN = FALSE /\ INTEN = FALSE /\ lastArg = -1

\* C7: a tick-less build whose CH_CFG_ST_TIMEDELTA is below 5 ends in the
\* error of the time-delta check and never proceeds.
C7_LowLookaheadRejected ==
    [][ (/\ phase = "config"
         /\ osalMode = "OSAL_ST_MODE_FREERUNNING"
         /\ deltaDefined /\ deltaValue < 5) =>
            /\ phase' = "error"
            /\ "CH_CFG_ST_TIMEDELTA is too low" \in errors'
      ]_vars

\* C7 witness: the tick-less build with a look-ahead of 2 has been rejected.
C7_Witness ==
    /\ phase = "error"
    /\ osalMode = "OSAL_ST_MODE_FREERUNNING"
    /\ deltaDefined /\ deltaValue = 2
    /\ "CH_CFG_ST_TIMEDELTA is too low" \in errors

\* C8: a build whose NRF51_SYSTEM_TICKS is neither AS_RTC nor AS_TIMER ends
\* in the illegal-value error; a build that leaves it undefined is not
\* rejected by that check and, when it succeeds, compiles the RTC branch.
C8_UnknownBackendRejected ==
    [][ phase = "config" =>
          /\ (ticksDefined /\ ticksValue # NRF51_SYSTEM_TICKS_AS_RTC
                           /\ ticksValue # NRF51_SYSTEM_TICKS_AS_TIMER) =>
                 /\ phase' = "error"
                 /\ "NRF51_SYSTEM_TICKS illegal value" \in errors'
          /\ ~ticksDefined =>
                 /\ "NRF51_SYSTEM_TICKS illegal value" \notin errors'
                 /\ phase' = "ready" => backend' = "RTC"
      ]_vars

\* C8 witness: a build stopped by the illegal-value check alone.
C8_Witness ==
    /\ phase = "error"
    /\ ticksDefined /\ ticksValue = 3
    /\ errors = {"NRF51_SYSTEM_TICKS illegal value"}

\* C9: periodic re-arm. After start(D0) and n matches each handled by
\* set(get() + Period), get() is (D0 + n*Period) mod 2^W, and the compare
\* source is enabled from the return of start on.
C9_PeriodicRearm ==
    n >= 0 =>
        /\ st_lld_get_alarm = (D0 + n * Period) % Modulus
        /\ (pc \notin {"start_clear", "start_enable"}) =>
               (CompareEnabled /\ alarmState = "Armed")

\* C9 witness: the chain of re-arms has wrapped round the counter modulus.
C9_Witness ==
    /\ n >= 2
    /\ D0 + n * Period >= Modulus
    /\ st_lld_get_alarm = (D0 + n * Period) % Modulus
    /\ CompareEnabled

\* C10: one deadline is outstanding. Once a deadline has been programmed by
\* start or set, a counter tick is a compare match exactly when the counter
\* reaches the argument of the last start or set: an overwritten deadline
\* raises no match.
C10_OneDeadline ==
    [][ (COUNTER' # COUNTER /\ lastArg # -1) =>
            (matched' <=> COUNTER' = lastArg)
      ]_vars

\* C10 witness: a deadline was overwritten before it matched, and the
\* counter has reached the new deadline and matched.
C10_Witness ==
    /\ overwrote
    /\ matched /\ ~fresh
    /\ COUNTER = lastArg
    /\ EVENTS_COMPARE0 = 1

\* C11: start performs its statements in the order compare write, event
\* clear, enable. The first step writes the deadline to CC[0] and nothing
\* else, the second clears EVENTS_COMPARE[0] and nothing else, the third
\* sets the enable bit and nothing else, and the enable is not written while
\* an event latched before the clear is still pending.
C11_StartOrder ==
    [][ /\ (pc = "idle" /\ pc' = "start_clear") =>
               /\ CC0' = lastArg'
               /\ UNCHANGED <<EVENTS_COMPARE0, EVTEN, INTEN>>
        /\ (pc = "start_clear" /\ pc' = "start_enable") =>
               /\ EVENTS_COMPARE0' = 0
               /\ UNCHANGED <<CC0, EVTEN, INTEN>>
        /\ (pc = "start_enable" /\ pc' = "idle") =>
               /\ CompareEnabled'
               /\ UNCHANGED <<CC0, EVENTS_COMPARE0>>
               /\ flagCause # "stale"
      ]_vars

\* C11 witness: inside start, the deadline is written, an event latched
\* earlier is still pending and the source is not enabled yet.
C11_Witness ==
    /\ pc = "start_clear"
    /\ CC0 = D0
    /\ flagCause = "stale" /\ EVENTS_COMPARE0 = 1
    /\ ~CompareEnabled

\* C12: stop first clears the enable bit and only then clears the event, in
\* normal context and in the handler: when stop returns the source is
\* disabled and the event is clear.
C12_StopOrder ==
    [][ /\ ((pc = "idle" /\ pc' = "stop_clear")
            \/ (HandlerActs /\ isrpc' = "h_stop_clear")) =>
               /\ ~CompareEnabled'
               /\ UNCHANGED <<CC0, EVENTS_COMPARE0>>
        /\ ((pc = "stop_clear" /\ pc' = "idle")
            \/ (isrpc = "h_stop_clear" /\ isrpc' = "none")) =>
               /\ ~CompareEnabled /\ ~CompareEnabled'
               /\ EVENTS_COMPARE0' = 0
               /\ CC0' = CC0
      ]_vars

\* C12 witness: inside stop, the source is disabled and an event that
\* latched after the disable waits for the clear.
C12_Witness ==
    /\ pc = "stop_clear"
    /\ ~CompareEnabled
    /\ EVENTS_COMPARE0 = 1

\* C13: set changes CC[0] and nothing else of the peripheral: the enable
\* bits, the pending event, the counter and CC[1] stay as they were, armed
\* or disarmed, from normal context or from the handler.
C13_SetFrame ==
    [][ ((\E d \in SystemTime : SetAlarm(d)) \/ IsrRearm) =>
            /\ CC0' = lastArg'
            /\ UNCHANGED <<COUNTER, CC1, EVENTS_COMPARE0, EVTEN, INTEN>>
      ]_vars

\* C13 witness: a set while disarmed has re-programmed the deadline and the
\* event latched before it is still pending.
C13_Witness ==
    /\ alarmState = "Disarmed" /\ ~CompareEnabled
    /\ fresh /\ lastArg # -1 /\ lastArg # D0
    /\ CC0 = lastArg
    /\ EVENTS_COMPARE0 = 1
    /\ pc = "idle" /\ isrpc = "none"

\* Every step of get_counter, in the normal context and in the handler.
GetCounterStep ==
    \/ GetCounterRTC \/ GetCounterCapture \/ GetCounterRead
    \/ IsrGetCounterRTC \/ IsrGetCounterCapture \/ IsrGetCounterRead

\* C14: get_counter never disturbs the alarm. Every step of get_counter,
\* wherever it is interleaved with start, stop or set, leaves the alarm slot
\* CC[0] (the value of get()), the enable bits and the event flag as they
\* were; on RTC0 it leaves every register as it was.
C14_GetCounterFrame ==
    [][ GetCounterStep =>
            /\ st_lld_get_alarm' = st_lld_get_alarm
            /\ UNCHANGED <<CC0, EVENTS_COMPARE0, EVTEN, INTEN>>
            /\ (UseRTC => UNCHANGED hwVars) ]_vars

\* C14 witness: on TIMER0 a get_counter of the normal context has captured
\* the counter and was preempted; the stop of the handler is in flight, and
\* the capture slot holds a value other than the programmed deadline, which
\* is still in CC[0].
C14_Witness ==
    /\ UseTIMER /\ pc = "gc_read" /\ isrpc = "h_stop_clear"
    /\ CC1 # CC0 /\ CC0 = lastArg /\ lastArg # 0

\* C15 as claimed: every write of CC[0], by start or by set, happens while
\* the compare source is disabled or no event is pending.
C15_DeadlineWriteQuiescent ==
    [][ ((\E d \in SystemTime : StartCC(d) \/ SetAlarm(d)) \/ IsrRearm) =>
            (~CompareEnabled \/ EVENTS_COMPARE0 = 0) ]_vars

\* C16: get() does not depend on AlarmState. No statement of stop changes
\* the programmed deadline, and get() called while disarmed returns the
\* argument of the last start or set.
C16_GetIndependentOfState ==
    [][ /\ (StopDisable \/ StopClear \/ IsrStopDisable \/ IsrStopClear) =>
               st_lld_get_alarm' = st_lld_get_alarm
        /\ (GetAlarm /\ alarmState = "Disarmed" /\ lastArg # -1) =>
               retVal' = lastArg
      ]_vars

\* C16 witness: after start and stop, get() has returned the deadline of
\* the start, not the reset value of the register.
C16_Witness ==
    /\ alarmState = "Disarmed" /\ ~CompareEnabled
    /\ D0 # -1 /\ lastArg = D0 /\ lastArg # 0
    /\ retKind = "get" /\ retVal = lastArg

\* start has returned, the counter has reached the deadline at some moment
\* since the compare write of that start, and no handler has run since.
ReachedSinceCompareWrite ==
    pc = "idle" /\ isrpc = "none" /\ n = 0 /\ ~fresh

\* C17 as claimed: whenever the counter reached the deadline after the
\* compare write of start, the interrupt is requested once start has
\* returned, without another turn of the counter.
C17_NoLostWakeup ==
    ReachedSinceCompareWrite => IrqLine

\* C17 amended: at the return of start the interrupt is requested exactly
\* when a compare match fell after the clear of the event; a match between
\* the compare write and the clear is discarded by the clear.
C17_MatchAfterClearOnly ==
    [][ (pc = "start_enable" /\ pc' = "idle") =>
            (IrqLine' <=> winMatch)
      ]_vars

\* C17 witness: start has returned, the counter reached the deadline
\* between the compare write and the clear, and no interrupt is requested.
C17_Witness ==
    /\ ReachedSinceCompareWrite
    /\ ~winMatch
    /\ CompareEnabled
    /\ EVENTS_COMPARE0 = 0

\* C18: get_counter on TIMER0 is linearizable under re-entrancy. The value
\* that the read of CC[1] returns, in the normal context and in the handler,
\* is a value the counter held at some tick between the capture of that
\* call and its read, also when the handler captured in between.
C18_GetCounterLinearizable ==
    [][ /\ GetCounterRead =>
            \E k \in 0 .. gcSpan : retVal' = (COUNTER + Modulus - k) % Modulus
        /\ IsrGetCounterRead =>
            \E k \in 0 .. hSpan : retVal' = (COUNTER + Modulus - k) % Modulus ]_vars

\* C18 witness: the handler preempted a get_counter of the normal context
\* between its capture and its read, the counter advanced, and the handler
\* called get_counter itself and got the later capture.
C18_Witness ==
    /\ pc = "gc_read" /\ isrpc = "h_act"
    /\ gcSpan >= 1 /\ gcSpan < Modulus - 1
    /\ retKind = "hcounter" /\ retVal = CC1 /\ retVal = COUNTER

\* C19 as claimed: a build with a known backend and the periodic mode
\* succeeds whatever CH_CFG_ST_TIMEDELTA is.
C19_PeriodicAccepted ==
    [][ (/\ phase = "config"
         /\ NRF51_SYSTEM_TICKS \in {NRF51_SYSTEM_TICKS_AS_RTC, NRF51_SYSTEM_TICKS_AS_TIMER}
         /\ osalMode = "OSAL_ST_MODE_PERIODIC") =>
            phase' = "ready"
      ]_vars

====
